---------------------------- MODULE Spec2Model ----------------------------
(* Trust gate, usage-limit messages, sandbox error messages, preset        *)
(* catalogues and the retry policy of codex-rs, as state machines.         *)
(*                                                                         *)
(* String literals of the source are Chinese; TLA+ strings are ASCII, so   *)
(* each literal is a named definition holding an English gloss, with the   *)
(* source literal quoted in the comment above it.  The way the messages    *)
(* are assembled from the literals is the source's.                        *)
EXTENDS Integers, Sequences, FiniteSets, TLC

VARIABLES
    \* ---- trust store and environment (codex_core::config, git_info)
    store,          \* set of paths with a persisted Trusted record
    gitDirs,        \* directories that hold VCS metadata
    \* ---- TrustDirectoryWidget fields (trust_directory.rs:23-30)
    cwd,
    selection,
    highlighted,
    error,
    \* ---- session bookkeeping
    session,        \* number of sessions started so far
    prompted,       \* the current session shows the trust prompt
    lastKey,        \* the key event handled last in this session
    writes,         \* calls of set_project_trusted in this session
    lastWrite,      \* the last of them: its key and whether it succeeded
    everTrust,      \* "trust" was chosen at some time, in some session
    declinedHere,   \* the session before this one declined this scope
    \* ---- UsageLimitReachedError (error.rs:128-185)
    plan_type,
    resets_in_seconds,
    reset_duration,
    message,
    \* ---- get_error_message_ui (error.rs:216-223)
    err,
    ui_message,
    \* ---- preset catalogues
    approvalCalls,
    modelCalls,
    callerVec,
    \* ---- retry loop
    retries,
    lastStatus,
    fault,
    directive,
    outcome

gateVars == <<store, gitDirs, cwd, selection, highlighted, error, session,
              prompted, lastKey, writes, lastWrite, everTrust, declinedHere>>
usageVars == <<plan_type, resets_in_seconds, reset_duration, message>>
uiVars == <<err, ui_message>>
presetVars == <<approvalCalls, modelCalls, callerVec>>
retryVars == <<retries, lastStatus, fault, directive, outcome>>
vars == <<gateVars, usageVars, uiVars, presetVars, retryVars>>

-----------------------------------------------------------------------------
(* Option<T>: None is the empty sequence, Some(x) the one-element sequence. *)
None == <<>>
Some(x) == <<x>>
IsSome(o) == o # <<>>
Unwrap(o) == o[1]

-----------------------------------------------------------------------------
(* Bounds *)
MaxSessions == 2
MaxWrites == 2

-----------------------------------------------------------------------------
(* Paths are sequences of components; <<"a","b">> is /a/b. *)
Dirs == { <<"a">>, <<"a", "b">>, <<"a", "b", "c">>, <<"e">> }
RepoCandidates == { <<"a">>, <<"a", "b">> }
IoErrors == { "permission denied", "read-only file system" }

IsPrefix(p, q) == Len(p) <= Len(q) /\ SubSeq(q, 1, Len(p)) = p

RECURSIVE PathDisplay(_)
PathDisplay(p) == IF p = <<>> THEN "" ELSE "/" \o Head(p) \o PathDisplay(Tail(p))

(* VCS-root resolution: the nearest ancestor-or-self holding VCS metadata. *)
resolve_root_git_project_for_trust(d) ==
    LET roots == { g \in gitDirs : IsPrefix(g, d) }
    IN  IF roots = {} THEN None
        ELSE Some(CHOOSE r \in roots : \A g \in roots : Len(g) <= Len(r))

(* TrustScope (data model): the repository root of a version-controlled    *)
(* directory, the directory itself otherwise.                              *)
TrustScope(d) ==
    LET roots == { g \in gitDirs : IsPrefix(g, d) }
    IN  IF roots = {} THEN d
        ELSE CHOOSE r \in roots : \A g \in roots : Len(g) <= Len(r)

(* The trust store's write: all or nothing. io is None (success) or Some(e). *)
set_project_trusted(st, target, io) ==
    IF IsSome(io) THEN [store |-> st, result |-> io]
    ELSE [store |-> st \cup {target}, result |-> None]

-----------------------------------------------------------------------------
(* TrustDirectoryWidget *)
Trust == "Trust"
DontTrust == "DontTrust"
KeyCodes == { "Up", "Down", "k", "j", "1", "2", "Enter", "Esc", "Tab" }

\* "未能为……设置信任 {}: {e}"
TrustErrorPrefix == "Failed to set trust for "
TrustError(target, e) == TrustErrorPrefix \o PathDisplay(target) \o ": " \o e

StepState(sel) == IF IsSome(sel) THEN "Complete" ELSE "InProgress"

\* Variant of TrustTarget: keys the write by the working directory.
TrustTargetCwd(self) == self.cwd
TrustTarget(self) ==
    LET root == resolve_root_git_project_for_trust(self.cwd)
    IN  IF IsSome(root) THEN Unwrap(root) ELSE self.cwd

(* A handler maps the widget (self), the store under codex_home and the    *)
(* outcome io of the write it may perform to the new widget, the new store *)
(* and the writes it made.  is_git_repo only selects the text drawn.       *)
\* Variant of handle_trust: returns on a failed write before recording the selection.
handle_trust_abort(self, st, io) ==
    LET target == TrustTarget(self)
        r == set_project_trusted(st, target, io)
    IN  IF IsSome(r.result)
        THEN [self |-> [self EXCEPT !.error = Some(TrustError(target, Unwrap(r.result)))],
              store |-> r.store,
              writes |-> << [key |-> target, ok |-> FALSE] >>]
        ELSE [self |-> [self EXCEPT !.selection = Some(Trust)],
              store |-> r.store,
              writes |-> << [key |-> target, ok |-> TRUE] >>]
handle_trust(self, st, io) ==
    LET target == TrustTarget(self)
        r == set_project_trusted(st, target, io)
        e == IF IsSome(r.result)
             THEN Some(TrustError(target, Unwrap(r.result)))
             ELSE self.error
    IN  [self |-> [self EXCEPT !.error = e, !.selection = Some(Trust)],
         store |-> r.store,
         writes |-> << [key |-> target, ok |-> ~IsSome(r.result)] >>]

\* Variant of handle_dont_trust: persists a record for the declined directory.
handle_dont_trust_persist(self, st) ==
    [self |-> [self EXCEPT !.highlighted = DontTrust, !.selection = Some(DontTrust)],
     store |-> st \cup {self.cwd},
     writes |-> << >>]
handle_dont_trust(self, st) ==
    [self |-> [self EXCEPT !.highlighted = DontTrust, !.selection = Some(DontTrust)],
     store |-> st,
     writes |-> << >>]

\* Variant of handle_key_event: Tab also moves the highlight.
handle_key_event_tab(self, st, key, io) ==
    CASE key \in {"Up", "k"} ->
            [self |-> [self EXCEPT !.highlighted = Trust], store |-> st, writes |-> << >>]
      [] key \in {"Down", "j", "Tab"} ->
            [self |-> [self EXCEPT !.highlighted = DontTrust], store |-> st, writes |-> << >>]
      [] key = "1" -> handle_trust(self, st, io)
      [] key = "2" -> handle_dont_trust(self, st)
      [] key = "Enter" ->
            IF self.highlighted = Trust
            THEN handle_trust(self, st, io)
            ELSE handle_dont_trust(self, st)
      [] OTHER -> [self |-> self, store |-> st, writes |-> << >>]
handle_key_event(self, st, key, io) ==
    CASE key \in {"Up", "k"} ->
            [self |-> [self EXCEPT !.highlighted = Trust], store |-> st, writes |-> << >>]
      [] key \in {"Down", "j"} ->
            [self |-> [self EXCEPT !.highlighted = DontTrust], store |-> st, writes |-> << >>]
      [] key = "1" -> handle_trust(self, st, io)
      [] key = "2" -> handle_dont_trust(self, st)
      [] key = "Enter" ->
            IF self.highlighted = Trust
            THEN handle_trust(self, st, io)
            ELSE handle_dont_trust(self, st)
      [] OTHER -> [self |-> self, store |-> st, writes |-> << >>]

Self == [cwd |-> cwd, selection |-> selection, highlighted |-> highlighted,
         error |-> error]

(* The key that reaches handle_trust / handle_dont_trust, given the highlight. *)
ChoosesTrust(key, hl) == key = "1" \/ (key = "Enter" /\ hl = Trust)
ChoosesDontTrust(key, hl) == key = "2" \/ (key = "Enter" /\ hl = DontTrust)

-----------------------------------------------------------------------------
(* Trust gate: sessions and key events *)

GateInit ==
    /\ store = {}
    /\ gitDirs \in SUBSET RepoCandidates
    /\ cwd = <<"a">>
    /\ selection = None
    /\ highlighted = Trust
    /\ error = None
    /\ session = 0
    /\ prompted = FALSE
    /\ lastKey = None
    /\ writes = 0
    /\ lastWrite = None
    /\ everTrust = FALSE
    /\ declinedHere = FALSE

(* Session start: look the scope up in the store; prompt only without a    *)
(* record.  The widget is constructed with nothing selected.               *)
StartSession ==
    /\ session < MaxSessions
    /\ \E d \in Dirs :
        /\ cwd' = d
        /\ prompted' = (TrustScope(d) \notin store)
        /\ declinedHere' = /\ session > 0
                           /\ selection = Some(DontTrust)
                           /\ TrustScope(d) = TrustScope(cwd)
    /\ session' = session + 1
    /\ selection' = None
    /\ highlighted' = Trust
    /\ error' = None
    /\ lastKey' = None
    /\ writes' = 0
    /\ lastWrite' = None
    /\ UNCHANGED <<store, gitDirs, everTrust>>

(* One key event delivered to the widget; the write of the store, when the *)
(* handler makes one, succeeds or fails with an I/O error.                 *)
KeyEvent ==
    /\ prompted
    /\ \E key \in KeyCodes, io \in {None} \cup { Some(e) : e \in IoErrors } :
        LET r == handle_key_event(Self, store, key, io) IN
        /\ writes + Len(r.writes) <= MaxWrites
        /\ selection' = r.self.selection
        /\ highlighted' = r.self.highlighted
        /\ error' = r.self.error
        /\ cwd' = r.self.cwd
        /\ store' = r.store
        /\ writes' = writes + Len(r.writes)
        /\ lastWrite' = IF r.writes = << >> THEN lastWrite ELSE Some(r.writes[Len(r.writes)])
        /\ lastKey' = Some(key)
        /\ everTrust' = (everTrust \/ ChoosesTrust(key, highlighted))
    /\ UNCHANGED <<gitDirs, session, prompted, declinedHere>>

GateIdle ==
    /\ store = {}
    /\ gitDirs = {}
    /\ cwd = <<"a">>
    /\ selection = None
    /\ highlighted = Trust
    /\ error = None
    /\ session = 0
    /\ prompted = FALSE
    /\ lastKey = None
    /\ writes = 0
    /\ lastWrite = None
    /\ everTrust = FALSE
    /\ declinedHere = FALSE

UsageIdle ==
    /\ plan_type = None
    /\ resets_in_seconds = None
    /\ reset_duration = None
    /\ message = None

UiIdle ==
    /\ err = None
    /\ ui_message = None

PresetIdle ==
    /\ approvalCalls = << >>
    /\ modelCalls = << >>
    /\ callerVec = None

RetryIdle ==
    /\ retries = 0
    /\ lastStatus = None
    /\ fault = None
    /\ directive = None
    /\ outcome = None

Init == GateInit /\ UsageIdle /\ UiIdle /\ PresetIdle /\ RetryIdle
Next ==
    \/ StartSession /\ UNCHANGED <<usageVars, uiVars, presetVars, retryVars>>
    \/ KeyEvent /\ UNCHANGED <<usageVars, uiVars, presetVars, retryVars>>
Spec == Init /\ [][Next]_vars

-----------------------------------------------------------------------------
(* Claims about the trust gate *)

IsKeyStep == session' = session /\ lastKey' # None

(* C1: choosing "trust" in directory D calls the store's write once, keyed *)
(* by the repository root R (the nearest ancestor-or-self of D holding VCS *)
(* metadata) when one exists and by D itself otherwise; the store gains at *)
(* most that one key, and never a nested D when a root exists.             *)
C1_TrustKeyedByScope ==
    [][ (IsKeyStep /\ ChoosesTrust(Unwrap(lastKey'), highlighted)) =>
          LET roots == { g \in gitDirs : IsPrefix(g, cwd) }
              w == Unwrap(lastWrite')
          IN  /\ writes' = writes + 1
              /\ IsPrefix(w.key, cwd)
              /\ roots = {} => w.key = cwd
              /\ roots # {} => /\ w.key \in roots
                               /\ \A g \in roots : Len(g) <= Len(w.key)
              /\ store' = IF w.ok THEN store \cup {w.key} ELSE store
      ]_vars

C1_Witness ==
    /\ prompted
    /\ cwd \notin gitDirs
    /\ \E g \in gitDirs : IsPrefix(g, cwd)
    /\ writes = 1
    /\ Unwrap(lastWrite).ok
    /\ Unwrap(lastWrite).key # cwd
    /\ store = {Unwrap(lastWrite).key}
    /\ selection = Some(Trust)

(* C2: choosing "do not trust" leaves the trust store alone and makes no   *)
(* write; as long as "trust" was never chosen the store is as it was at    *)
(* the start (empty), and every session prompts.                           *)
C2_DeclineNeverWrites ==
    /\ [][ (IsKeyStep /\ ChoosesDontTrust(Unwrap(lastKey'), highlighted)) =>
             /\ store' = store
             /\ writes' = writes
             /\ selection' = Some(DontTrust)
         ]_vars
    /\ [](~everTrust => store = {})
    /\ []((~everTrust /\ session > 0) => prompted)

C2_Witness ==
    /\ session >= 2
    /\ declinedHere
    /\ ~everTrust
    /\ TrustScope(cwd) \notin store
    /\ prompted
    /\ selection = None

C4_DecidedIsTerminal ==
    [][ (IsKeyStep /\ IsSome(selection)) =>
          /\ selection' = selection
          /\ writes' = writes
      ]_vars

(* C5: Up/'k' set the highlight to Trust and Down/'j' to DontTrust, each   *)
(* leaving selection, error and store unchanged; a key other than Up,      *)
(* Down, 'k', 'j', '1', '2', Enter leaves the whole gate state unchanged.  *)
C5_NavigationFrame ==
    [][ IsKeyStep =>
          LET key == Unwrap(lastKey')
              frame == /\ selection' = selection
                       /\ error' = error
                       /\ store' = store
                       /\ writes' = writes
          IN  /\ key \in {"Up", "k"} => highlighted' = Trust /\ frame
              /\ key \in {"Down", "j"} => highlighted' = DontTrust /\ frame
              /\ key \notin {"Up", "Down", "k", "j", "1", "2", "Enter"} =>
                    highlighted' = highlighted /\ frame
      ]_vars

C5_Witness ==
    /\ prompted
    /\ lastKey \in {Some("Up"), Some("k")}
    /\ highlighted = Trust
    /\ selection = Some(DontTrust)
    /\ store = {}

(* C11: in every reachable state of the trust gate where a decision has    *)
(* been recorded, the highlighted option (the one drawn as selected) is    *)
(* the recorded selection.                                                 *)
C11_HighlightIsSelection ==
    IsSome(selection) => highlighted = Unwrap(selection)

(* The same for the step that records the decision alone: right after the  *)
(* first choice the highlight is the option chosen.                        *)
C11_DecisionStepHighlights ==
    [][ (IsKeyStep /\ selection = None /\ IsSome(selection')) =>
          highlighted' = Unwrap(selection')
      ]_vars

-----------------------------------------------------------------------------
(* UsageLimitReachedError: Display and format_reset_duration (error.rs)    *)

MaxDays == 2

HasPrefix(str, p) == Len(p) <= Len(str) /\ SubSeq(str, 1, Len(p)) = p
HasSuffix(str, p) ==
    Len(p) <= Len(str) /\ SubSeq(str, Len(str) - Len(p) + 1, Len(str)) = p

\* " 天"
UnitDays == " days"
\* " 小时"
UnitHours == " hours"
\* " 分钟"
UnitMinutes == " minutes"
\* "不到 1 分钟"
LessThanMinute == "less than 1 minute"

RECURSIVE Join(_, _)
Join(parts, sep) ==
    IF parts = << >> THEN ""
    ELSE IF Len(parts) = 1 THEN parts[1]
    ELSE parts[1] \o sep \o Join(Tail(parts), sep)

\* Variant of format_reset_duration: hours taken of the total, not of the remainder.
format_reset_duration_hours_of_total(total_secs) ==
    LET days == total_secs \div 86400
        hours == total_secs \div 3600
        minutes == (total_secs % 3600) \div 60
        p1 == IF days > 0 THEN << ToString(days) \o UnitDays >> ELSE << >>
        p2 == IF hours > 0 THEN Append(p1, ToString(hours) \o UnitHours) ELSE p1
        parts == IF minutes > 0 THEN Append(p2, ToString(minutes) \o UnitMinutes) ELSE p2
    IN  IF parts = << >> THEN LessThanMinute ELSE Join(parts, " ")
format_reset_duration(total_secs) ==
    LET days == total_secs \div 86400
        hours == (total_secs % 86400) \div 3600
        minutes == (total_secs % 3600) \div 60
        p1 == IF days > 0 THEN << ToString(days) \o UnitDays >> ELSE << >>
        p2 == IF hours > 0 THEN Append(p1, ToString(hours) \o UnitHours) ELSE p1
        parts == IF minutes > 0 THEN Append(p2, ToString(minutes) \o UnitMinutes) ELSE p2
    IN  IF parts = << >> THEN LessThanMinute ELSE Join(parts, " ")

\* "已达到使用上限。升级到 Pro(https://openai.com/chatgpt/pricing)或稍后重试"
PlusBase == "Usage limit reached.Upgrade to Pro(https://openai.com/chatgpt/pricing) or try again later"
\* "，大约 {reset_duration} 后重置。"
PlusResetBefore == ", in about "
PlusResetAfter == " it resets."
\* "。"
PlusNoReset == "."
\* "已达到使用上限。"
DefaultBase == "Usage limit reached."
\* "请在约 {reset_duration} 后重试。"
DefaultResetBefore == "Please in about "
DefaultResetAfter == " retry."
\* "请稍后重试。"
DefaultNoReset == "Please try again later."

\* Variant of the Display below: any present plan_type gets the upgrade clause.
UsageLimitReachedDisplay_any_plan(e) ==
    IF IsSome(e.plan_type)
    THEN PlusBase \o
         (IF IsSome(e.resets_in_seconds)
          THEN PlusResetBefore \o format_reset_duration(Unwrap(e.resets_in_seconds))
                 \o PlusResetAfter
          ELSE PlusNoReset)
    ELSE DefaultBase \o
         (IF IsSome(e.resets_in_seconds)
          THEN DefaultResetBefore \o format_reset_duration(Unwrap(e.resets_in_seconds))
                 \o DefaultResetAfter
          ELSE DefaultNoReset)
(* impl Display for UsageLimitReachedError: the writes to f, in order. *)
UsageLimitReachedDisplay(e) ==
    IF IsSome(e.plan_type) /\ Unwrap(e.plan_type) = "plus"
    THEN PlusBase \o
         (IF IsSome(e.resets_in_seconds)
          THEN PlusResetBefore \o format_reset_duration(Unwrap(e.resets_in_seconds))
                 \o PlusResetAfter
          ELSE PlusNoReset)
    ELSE DefaultBase \o
         (IF IsSome(e.resets_in_seconds)
          THEN DefaultResetBefore \o format_reset_duration(Unwrap(e.resets_in_seconds))
                 \o DefaultResetAfter
          ELSE DefaultNoReset)

PlanTypes == { "plus", "pro", "free", "Plus", "" }
TestSecs == { 0, 30, 59, 60, 300, 3600, 12720, 86400, 183900 }
SecsInputs ==
    TestSecs \cup
    { d * 86400 + h * 3600 + m * 60 + sec :
        d \in 0..MaxDays, h \in {0, 1, 23}, m \in {0, 1, 59}, sec \in {0, 59} }

UsageInit ==
    /\ plan_type \in {None} \cup { Some(pt) : pt \in PlanTypes }
    /\ resets_in_seconds \in {None} \cup { Some(t) : t \in SecsInputs }
    /\ reset_duration = None
    /\ message = None

CallFormatResetDuration ==
    /\ IsSome(resets_in_seconds)
    /\ reset_duration = None
    /\ reset_duration' = Some(format_reset_duration(Unwrap(resets_in_seconds)))
    /\ UNCHANGED <<plan_type, resets_in_seconds, message>>

CallDisplay ==
    /\ message = None
    /\ message' = Some(UsageLimitReachedDisplay(
                         [plan_type |-> plan_type,
                          resets_in_seconds |-> resets_in_seconds]))
    /\ UNCHANGED <<plan_type, resets_in_seconds, reset_duration>>

InitUsage == GateIdle /\ UsageInit /\ UiIdle /\ PresetIdle /\ RetryIdle
NextUsage ==
    \/ CallFormatResetDuration /\ UNCHANGED <<gateVars, uiVars, presetVars, retryVars>>
    \/ CallDisplay /\ UNCHANGED <<gateVars, uiVars, presetVars, retryVars>>
SpecUsage == InitUsage /\ [][NextUsage]_vars

(* The decomposition of section 4.5, written out: days, then hours of the  *)
(* remainder, then minutes of the remainder, seconds dropped; the nonzero  *)
(* units most-significant first, one space between.                        *)
RefCountdown(t) ==
    LET d == t \div 86400
        afterDays == t - d * 86400
        h == afterDays \div 3600
        afterHours == afterDays - h * 3600
        m == afterHours \div 60
        D == ToString(d) \o UnitDays
        H == ToString(h) \o UnitHours
        M == ToString(m) \o UnitMinutes
    IN  CASE d > 0 /\ h > 0 /\ m > 0 -> D \o " " \o H \o " " \o M
          [] d > 0 /\ h > 0 /\ m = 0 -> D \o " " \o H
          [] d > 0 /\ h = 0 /\ m > 0 -> D \o " " \o M
          [] d > 0 /\ h = 0 /\ m = 0 -> D
          [] d = 0 /\ h > 0 /\ m > 0 -> H \o " " \o M
          [] d = 0 /\ h > 0 /\ m = 0 -> H
          [] d = 0 /\ h = 0 /\ m > 0 -> M
          [] OTHER -> LessThanMinute

NamedCountdowns ==
    [t \in TestSecs |->
        CASE t = 0 -> "less than 1 minute"
          [] t = 30 -> "less than 1 minute"
          [] t = 59 -> "less than 1 minute"
          [] t = 60 -> "1 minutes"
          [] t = 300 -> "5 minutes"
          [] t = 3600 -> "1 hours"
          [] t = 12720 -> "3 hours 32 minutes"
          [] t = 86400 -> "1 days"
          [] t = 183900 -> "2 days 3 hours 5 minutes"]

(* C6: for every total_secs the countdown equals the reference             *)
(* decomposition, is never empty, is the "less than one minute" phrase     *)
(* exactly below 60 seconds, and is as expected at 0, 30, 59, 60, 300,     *)
(* 3600, 12720, 86400 and 183900.                                          *)
C6_CountdownMatchesDecomposition ==
    IsSome(reset_duration) =>
        LET t == Unwrap(resets_in_seconds)
            out == Unwrap(reset_duration)
        IN  /\ out = RefCountdown(t)
            /\ out # ""
            /\ (t < 60) <=> (out = LessThanMinute)
            /\ t \in TestSecs => out = NamedCountdowns[t]

C6_Witness ==
    /\ resets_in_seconds = Some(183900)
    /\ reset_duration = Some("2 days 3 hours 5 minutes")

(* C7: the message starts with the upgrade suggestion exactly when         *)
(* plan_type is "plus" and with the generic clause followed by a retry     *)
(* clause otherwise; it ends with the countdown clause when                *)
(* resets_in_seconds is present and with "try again later." when absent.   *)
C7_MessageByPlanAndReset ==
    IsSome(message) =>
        LET m == Unwrap(message)
            plus == plan_type = Some("plus")
        IN  /\ plus <=> HasPrefix(m, PlusBase)
            /\ ~plus => HasPrefix(m, DefaultBase \o "Please ")
            /\ resets_in_seconds = None =>
                  /\ HasSuffix(m, "try again later.")
                  /\ m = IF plus THEN PlusBase \o "." ELSE "Usage limit reached.Please try again later."
            /\ IsSome(resets_in_seconds) =>
                  LET c == RefCountdown(Unwrap(resets_in_seconds))
                  IN  /\ HasSuffix(m, c \o PlusResetAfter) \/ HasSuffix(m, c \o DefaultResetAfter)
                      /\ ~HasSuffix(m, "try again later.")

C7_Witness ==
    /\ plan_type = Some("pro")
    /\ resets_in_seconds = Some(12720)
    /\ message = Some("Usage limit reached.Please in about 3 hours 32 minutes retry.")

-----------------------------------------------------------------------------
(* SandboxErr, CodexErr and get_error_message_ui (error.rs)                *)

\* "沙箱拒绝执行,退出码:{0},stdout:{1},stderr:{2}"
DeniedText(code, out, errout) ==
    "sandbox denied exec, exit code:" \o ToString(code) \o ",stdout:" \o out
        \o ",stderr:" \o errout
\* "seccomp 安装错误"
SeccompInstallText == "seccomp setup error"
\* "seccomp 后端错误"
SeccompBackendText == "seccomp backend error"
\* "命令超时"
SandboxTimeoutText == "command timed out"
\* "命令被信号终止"
SignalText == "command was killed by a signal"
\* "Landlock 未能完全执行所有沙箱规则"
LandlockRestrictText == "Landlock was not able to fully enforce all sandbox rules"
\* "沙箱错误:{0}"
SandboxPrefix == "sandbox error:"
\* "错误:命令超时"
UiTimeoutText == "error:command timed out"

(* #[error(...)] of SandboxErr: its Display. *)
SandboxErrDisplay(e) ==
    CASE e.tag = "Denied" -> DeniedText(e.exit_code, e.stdout, e.stderr)
      [] e.tag = "SeccompInstall" -> SeccompInstallText
      [] e.tag = "SeccompBackend" -> SeccompBackendText
      [] e.tag = "Timeout" -> SandboxTimeoutText
      [] e.tag = "Signal" -> SignalText
      [] e.tag = "LandlockRestrict" -> LandlockRestrictText

(* reqwest::StatusCode's Display: the code and its canonical reason. *)
StatusCodeDisplay(code) ==
    CASE code = 429 -> "429 Too Many Requests"
      [] code = 500 -> "500 Internal Server Error"
      [] code = 503 -> "503 Service Unavailable"
      [] OTHER -> ToString(code) \o " <unknown status code>"

(* #[error(...)] of CodexErr: its Display, for the variants whose text is  *)
(* set in this file.                                                       *)
CodexErrDisplay(e) ==
    CASE e.tag = "Stream" -> "stream disconnected before completion:" \o e.msg
      [] e.tag = "SessionConfiguredNotFirstEvent" ->
            "session configured event was not the first event in the stream"
      [] e.tag = "Timeout" -> "timed out waiting for the child process to exit"
      [] e.tag = "Spawn" -> "spawn failed:child stdout/stderr not captured"
      [] e.tag = "Interrupted" -> "interrupted(Ctrl-C)"
      [] e.tag = "UnexpectedStatus" ->
            "unexpected status " \o StatusCodeDisplay(e.status) \o ":" \o e.body
      [] e.tag = "UsageLimitReached" -> UsageLimitReachedDisplay(e.inner)
      [] e.tag = "UsageNotIncluded" ->
            "To use Codex with your ChatGPT plan, upgrade to Plus(https://openai.com/chatgpt/pricing)."
      [] e.tag = "InternalServerError" ->
            "We are currently experiencing high demand, which may cause temporary errors."
      [] e.tag = "RetryLimit" ->
            "exceeded retry limit, last status:" \o StatusCodeDisplay(e.status)
      [] e.tag = "InternalAgentDied" -> "internal error; agent loop died unexpectedly"
      [] e.tag = "Sandbox" -> SandboxPrefix \o SandboxErrDisplay(e.inner)
      [] e.tag = "LandlockSandboxExecutableNotProvided" ->
            "codex-linux-sandbox was required but not provided"

\* Variant of get_error_message_ui: the Denied arm is missing.
get_error_message_ui_no_denied_arm(e) ==
    IF e.tag = "Sandbox" /\ e.inner.tag = "Timeout" THEN UiTimeoutText
    ELSE CodexErrDisplay(e)
get_error_message_ui(e) ==
    IF e.tag = "Sandbox" /\ e.inner.tag = "Denied" THEN e.inner.stderr
    ELSE IF e.tag = "Sandbox" /\ e.inner.tag = "Timeout" THEN UiTimeoutText
    ELSE CodexErrDisplay(e)

ExitCodes == { 1, 2, 126, 127, -1 }
Stdouts == { "", "out", "stderr:x" }
Stderrs == { "", "blocked", "sandbox: write denied", "error:command timed out" }
Signals == { 9, 15 }

Denied(code, out, errout) ==
    [tag |-> "Denied", exit_code |-> code, stdout |-> out, stderr |-> errout]
Sandbox(inner) == [tag |-> "Sandbox", inner |-> inner]

SandboxErrs ==
    { Denied(c, o, x) : c \in ExitCodes, o \in Stdouts, x \in Stderrs }
    \cup { [tag |-> "Signal", signal |-> n] : n \in Signals }
    \cup { [tag |-> t] : t \in {"Timeout", "LandlockRestrict", "SeccompInstall", "SeccompBackend"} }

CodexErrs ==
    { Sandbox(x) : x \in SandboxErrs }
    \cup { [tag |-> "Stream", msg |-> "eof", delay |-> d] : d \in {None, Some(2)} }
    \cup { [tag |-> "UnexpectedStatus", status |-> c, body |-> "oops"] : c \in {429, 500} }
    \cup { [tag |-> "RetryLimit", status |-> c] : c \in {429, 503} }
    \cup { [tag |-> "UsageLimitReached",
            inner |-> [plan_type |-> pt, resets_in_seconds |-> r]] :
              pt \in {None, Some("plus")}, r \in {None, Some(300)} }
    \cup { [tag |-> t] : t \in {"SessionConfiguredNotFirstEvent", "Timeout", "Spawn",
                                 "Interrupted", "UsageNotIncluded", "InternalServerError",
                                 "InternalAgentDied", "LandlockSandboxExecutableNotProvided"} }

UiInit ==
    /\ err \in { Some(e) : e \in CodexErrs }
    /\ ui_message = None

CallGetErrorMessageUi ==
    /\ ui_message = None
    /\ ui_message' = Some(get_error_message_ui(Unwrap(err)))
    /\ UNCHANGED err

InitUi == GateIdle /\ UsageIdle /\ UiInit /\ PresetIdle /\ RetryIdle
NextUi == CallGetErrorMessageUi /\ UNCHANGED <<gateVars, usageVars, presetVars, retryVars>>
SpecUi == InitUi /\ [][NextUi]_vars

(* The fixed message of each execution fault other than Denied. *)
FixedUiText(tag) ==
    CASE tag = "Timeout" -> "error:command timed out"
      [] tag = "Signal" -> "sandbox error:command was killed by a signal"
      [] tag = "LandlockRestrict" ->
            "sandbox error:Landlock was not able to fully enforce all sandbox rules"
      [] tag = "SeccompInstall" -> "sandbox error:seccomp setup error"
      [] tag = "SeccompBackend" -> "sandbox error:seccomp backend error"

(* C8: the user-facing message of Denied{exit_code, stdout, stderr} is     *)
(* exactly stderr, whatever exit_code and stdout are; every other          *)
(* execution fault renders the fixed text of its kind.                     *)
C8_DeniedShowsStderr ==
    (IsSome(ui_message) /\ Unwrap(err).tag = "Sandbox") =>
        LET e == Unwrap(err).inner
        IN  IF e.tag = "Denied"
            THEN ui_message = Some(e.stderr)
            ELSE ui_message = Some(FixedUiText(e.tag))

C8_Witness ==
    /\ err = Some(Sandbox(Denied(126, "", "blocked")))
    /\ ui_message = Some("blocked")

-----------------------------------------------------------------------------
(* Preset catalogues (approval_presets.rs, model_presets.rs)               *)

MaxCalls == 3

ApprovalPreset(id, label, description, approval, sandbox) ==
    [id |-> id, label |-> label, description |-> description,
     approval |-> approval, sandbox |-> sandbox]
ModelPreset(id, label, description, model, effort) ==
    [id |-> id, label |-> label, description |-> description,
     model |-> model, effort |-> effort]

(* The vec! literal of builtin_approval_presets (labels and descriptions   *)
(* glossed); WorkspaceWrite stands for new_workspace_write_policy().       *)
ApprovalCatalogue ==
    << ApprovalPreset("read-only", "Read Only",
                      "Codex can read files and answer questions; edits, commands and network need approval",
                      "OnRequest", "ReadOnly"),
       ApprovalPreset("auto", "Auto",
                      "Codex can read files, edit and run commands in the workspace; outside it or network need approval",
                      "OnRequest", "WorkspaceWrite"),
       ApprovalPreset("full-access", "Full Access",
                      "Codex can read files, edit and run commands with network access without approval",
                      "Never", "DangerFullAccess") >>

\* Variant of builtin_approval_presets: hands out the Vec the caller holds.
builtin_approval_presets_shared ==
    IF IsSome(callerVec) THEN Unwrap(callerVec) ELSE ApprovalCatalogue
(* A fresh Vec on every call. *)
builtin_approval_presets == ApprovalCatalogue

(* The static PRESETS slice. *)
builtin_model_presets ==
    << ModelPreset("gpt-5-minimal", "gpt-5 minimal",
                   "fastest responses with limited reasoning", "gpt-5", "Minimal"),
       ModelPreset("gpt-5-low", "gpt-5 low",
                   "balances speed with some reasoning", "gpt-5", "Low"),
       ModelPreset("gpt-5-medium", "gpt-5 medium",
                   "default setting; balance of reasoning depth and latency", "gpt-5", "Medium"),
       ModelPreset("gpt-5-high", "gpt-5 high",
                   "maximizes reasoning depth", "gpt-5", "High") >>

RemoveAt(v, i) == SubSeq(v, 1, i - 1) \o SubSeq(v, i + 1, Len(v))
Reverse(v) == [i \in 1..Len(v) |-> v[Len(v) + 1 - i]]

PresetInit ==
    /\ approvalCalls = << >>
    /\ modelCalls = << >>
    /\ callerVec = None

CallBuiltinApprovalPresets ==
    /\ Len(approvalCalls) < MaxCalls
    /\ approvalCalls' = Append(approvalCalls, builtin_approval_presets)
    /\ callerVec' = Some(builtin_approval_presets)
    /\ UNCHANGED modelCalls

CallBuiltinModelPresets ==
    /\ Len(modelCalls) < MaxCalls
    /\ modelCalls' = Append(modelCalls, builtin_model_presets)
    /\ UNCHANGED <<approvalCalls, callerVec>>

(* The caller owns the Vec it was handed and may change it. *)
CallerMutatesVec ==
    /\ IsSome(callerVec)
    /\ LET v == Unwrap(callerVec) IN
       \/ \E i \in DOMAIN v : callerVec' = Some(RemoveAt(v, i))
       \/ Len(v) > 1 /\ callerVec' = Some(Reverse(v))
    /\ UNCHANGED <<approvalCalls, modelCalls>>

InitPresets == GateIdle /\ UsageIdle /\ UiIdle /\ PresetInit /\ RetryIdle
NextPresets ==
    \/ CallBuiltinApprovalPresets /\ UNCHANGED <<gateVars, usageVars, uiVars, retryVars>>
    \/ CallBuiltinModelPresets /\ UNCHANGED <<gateVars, usageVars, uiVars, retryVars>>
    \/ CallerMutatesVec /\ UNCHANGED <<gateVars, usageVars, uiVars, retryVars>>
SpecPresets == InitPresets /\ [][NextPresets]_vars

Ids(v) == [i \in DOMAIN v |-> v[i].id]
UniqueNonEmptyIds(v) ==
    /\ \A i \in DOMAIN v : v[i].id # ""
    /\ \A i, j \in DOMAIN v : v[i].id = v[j].id => i = j

(* C9: every call of builtin_approval_presets returns the ids read-only,   *)
(* auto, full-access in that order, every call of builtin_model_presets    *)
(* returns the same sequence as the first call, and within one catalogue   *)
(* every id is non-empty and no two entries share an id.                   *)
C9_PresetIdsUniqueAndStable ==
    /\ \A i \in DOMAIN approvalCalls :
          /\ Ids(approvalCalls[i]) = << "read-only", "auto", "full-access" >>
          /\ approvalCalls[i] = approvalCalls[1]
          /\ UniqueNonEmptyIds(approvalCalls[i])
    /\ \A i \in DOMAIN modelCalls :
          /\ Ids(modelCalls[i]) =
                << "gpt-5-minimal", "gpt-5-low", "gpt-5-medium", "gpt-5-high" >>
          /\ modelCalls[i] = modelCalls[1]
          /\ UniqueNonEmptyIds(modelCalls[i])

C9_Witness ==
    /\ Len(approvalCalls) >= 2
    /\ Len(modelCalls) >= 2
    /\ IsSome(callerVec)
    /\ Unwrap(callerVec) # approvalCalls[1]

-----------------------------------------------------------------------------
(* Stream fault classifier and retry policy (section 4.5).  The fault      *)
(* variants are CodexErr's (error.rs:40-126); the session loop that        *)
(* retries is not part of these sources and follows section 4.5.           *)

MaxRetries == 3

Delays == { 1, 5 }
TransientStatuses == { 500, 503 }
OtherStatuses == { 400 }

(* CodexErr::Stream(String, Option<Duration>) *)
Stream(msg, delay) == [tag |-> "Stream", msg |-> msg, delay |-> delay]
(* CodexErr::UnexpectedStatus(StatusCode, String) *)
UnexpectedStatus(status, body) == [tag |-> "UnexpectedStatus", status |-> status, body |-> body]
(* CodexErr::RetryLimit(StatusCode) *)
RetryLimit(status) == [tag |-> "RetryLimit", status |-> status]

StreamFaults ==
    { Stream("eof", d) : d \in {None} \cup { Some(x) : x \in Delays } }
    \cup { UnexpectedStatus(c, "") : c \in TransientStatuses \cup OtherStatuses }
    \cup { [tag |-> "UsageLimitReached",
            inner |-> [plan_type |-> Some("plus"), resets_in_seconds |-> None]] }
    \cup { [tag |-> t] : t \in {"UsageNotIncluded", "Interrupted", "Spawn", "Timeout"} }

Retry(after) == [tag |-> "Retry", after |-> after]
Terminal == [tag |-> "Terminal"]

IsTransient(f) ==
    \/ f.tag = "Stream"
    \/ f.tag = "UnexpectedStatus" /\ f.status \in TransientStatuses

\* Variant of Classify: the delay a Stream fault carries is dropped.
Classify_no_delay(f) ==
    IF IsTransient(f) THEN Retry(None) ELSE Terminal
(* The retry directive attached to a fault. *)
Classify(f) ==
    CASE f.tag = "Stream" -> Retry(f.delay)
      [] f.tag = "UnexpectedStatus" /\ f.status \in TransientStatuses -> Retry(None)
      [] OTHER -> Terminal

RetryInit ==
    /\ retries = 0
    /\ lastStatus = None
    /\ fault = None
    /\ directive = None
    /\ outcome = None

Running == IF outcome = None THEN TRUE ELSE Unwrap(outcome).tag = "Retry"

(* An operation of the turn ends in a fault: it is classified, and a Retry *)
(* directive is honoured while the budget lasts.                           *)
FaultArrives ==
    /\ Running
    /\ \E f \in StreamFaults :
        LET dir == Classify(f)
            status == IF f.tag = "UnexpectedStatus" THEN Some(f.status) ELSE lastStatus
        IN  /\ fault' = Some(f)
            /\ directive' = Some(dir)
            /\ lastStatus' = status
            /\ IF dir.tag = "Retry" /\ retries < MaxRetries
               THEN /\ retries' = retries + 1
                    /\ outcome' = Some(dir)
               ELSE IF dir.tag = "Retry"
               THEN /\ retries' = retries
                    /\ outcome' = Some([tag |-> "Terminal", err |-> [tag |-> "RetryLimit", status |-> status]])
               ELSE /\ retries' = retries
                    /\ outcome' = Some([tag |-> "Terminal", err |-> f])

(* The operation completes: the turn is over. *)
Completes ==
    /\ Running
    /\ outcome' = Some([tag |-> "Success"])
    /\ UNCHANGED <<retries, lastStatus, fault, directive>>

InitRetry == GateIdle /\ UsageIdle /\ UiIdle /\ PresetIdle /\ RetryInit
NextRetry ==
    \/ FaultArrives /\ UNCHANGED <<gateVars, usageVars, uiVars, presetVars>>
    \/ Completes /\ UNCHANGED <<gateVars, usageVars, uiVars, presetVars>>
SpecRetry == InitRetry /\ [][NextRetry]_vars

(* C10: a Stream fault that carries a delay gets the directive             *)
(* Retry{after: that delay}; a retry is only granted within the budget;    *)
(* a transient fault arriving with the budget spent ends in                *)
(* Terminal(RetryLimit) carrying the last status seen.                     *)
C10_StreamRetryAndBudget ==
    /\ (IsSome(fault) /\ Unwrap(fault).tag = "Stream" /\ IsSome(Unwrap(fault).delay)) =>
          directive = Some([tag |-> "Retry", after |-> Unwrap(fault).delay])
    /\ retries <= MaxRetries
    /\ (IsSome(outcome) /\ Unwrap(outcome).tag = "Retry") =>
          outcome = directive
    /\ (IsSome(outcome) /\ Unwrap(outcome).tag = "Terminal"
          /\ (Unwrap(fault).tag = "Stream"
                \/ (Unwrap(fault).tag = "UnexpectedStatus"
                      /\ Unwrap(fault).status \in TransientStatuses))) =>
          /\ retries = MaxRetries
          /\ Unwrap(outcome).err = [tag |-> "RetryLimit", status |-> lastStatus]

C10_Witness ==
    /\ retries = MaxRetries
    /\ IsSome(fault)
    /\ Unwrap(fault).tag = "Stream"
    /\ IsSome(Unwrap(fault).delay)
    /\ directive = Some([tag |-> "Retry", after |-> Unwrap(fault).delay])
    /\ IsSome(outcome)
    /\ Unwrap(outcome).tag = "Terminal"
    /\ Unwrap(outcome).err.tag = "RetryLimit"

=============================================================================
